---- MODULE Spec2Model ----
(***************************************************************************)
(* pyinit: the project-root locator and the pyproject.toml metadata        *)
(* reader of src/pyinit/utils.py and the command dispatcher of             *)
(* src/pyinit/main.py.                                                     *)
(*                                                                         *)
(* Four specifications, one per component:                                 *)
(*   SpecRoot  (FairSpecRoot)  find_project_root                           *)
(*   SpecClean                 the specifier cleaning of line 111          *)
(*   SpecMeta                  get_project_name, get_project_dependencies  *)
(*   SpecCli                   main                                        *)
(* Spec is their union.                                                    *)
(***************************************************************************)
EXTENDS Integers, Sequences, FiniteSets, TLC

VARIABLES
    \* --- find_project_root ---
    fs_depth,      \* depth of the resolved working directory (root = 0)
    fs_mark,       \* fs_mark[d]: what "pyproject.toml" is in ancestor d
    root_pc,       \* "idle" | "start" | "loop" | "done"
    current_dir,   \* the local current_dir (a depth)
    root_result,   \* <<>> (None) or <<d>> (the directory returned)
    checked,       \* the directories whose marker was tested, in order
    resolves,      \* how often Path.cwd().resolve() ran
    \* --- specifier cleaning ---
    clean_pc,      \* "idle" | "input" | "done"
    dep,           \* one specifier string (a sequence of characters)
    cleaned,       \* the cleaned name
    \* --- get_project_name / get_project_dependencies ---
    meta_pc,       \* "idle" | "ready"
    file_state,    \* state of <root>/pyproject.toml
    doc,           \* the parsed document when file_state = "ok"
    name_out,      \* outcome of get_project_name
    deps_out,      \* outcome of get_project_dependencies
    \* --- main ---
    cli_pc,        \* "idle" | "Start" | "Scanned" | "Parsed" | "ParseError" | "Dispatched"
    argv,          \* sys.argv[1:]
    main_args,     \* the local main_args
    sub_args,      \* the local sub_args
    args,          \* the argparse namespace
    invoked,       \* the orchestration routines called, with their arguments
    exit_code,     \* <<>> while running, <<n>> once the process has exited
    usage_err      \* TRUE once usage text went to standard error

rootVars  == <<fs_depth, fs_mark, root_pc, current_dir, root_result, checked, resolves>>
cleanVars == <<clean_pc, dep, cleaned>>
metaVars  == <<meta_pc, file_state, doc, name_out, deps_out>>
cliVars   == <<cli_pc, argv, main_args, sub_args, args, invoked, exit_code, usage_err>>
vars      == <<rootVars, cleanVars, metaVars, cliVars>>

(***************************************************************************)
(* Bounds                                                                  *)
(***************************************************************************)
MaxDepth   == 4    \* deepest working directory
MaxLen     == 3    \* longest specifier string of SpecClean
MaxEntries == 3    \* dependency entries in one pyproject.toml
MaxArgs    == 3    \* longest argument vector

(***************************************************************************)
(* find_project_root                                                       *)
(*                                                                         *)
(* Only the ancestors of the resolved working directory are ever looked    *)
(* at, so the directory tree is that chain: directory d is the ancestor at *)
(* depth d, 0 the filesystem root.                                         *)
(***************************************************************************)
MarkKinds == {"none", "file", "dir"}

\* Path.parent: the root is its own parent.
ParentSkipsLevel(d) == IF d <= 1 THEN 0 ELSE d - 2
Parent(d) == IF d = 0 THEN 0 ELSE d - 1

\* (d / "pyproject.toml").is_file()
IsFileExists(d) == fs_mark[d] # "none"
IsFile(d) == fs_mark[d] = "file"

RootIdle ==
    /\ fs_depth = 0 /\ fs_mark = <<>> /\ root_pc = "idle" /\ current_dir = 0
    /\ root_result = <<>> /\ checked = <<>> /\ resolves = 0

InitRootVars ==
    /\ fs_depth \in 0..MaxDepth
    /\ fs_mark \in [0..fs_depth -> MarkKinds]
    /\ root_pc = "start"
    /\ current_dir = 0
    /\ root_result = <<>>
    /\ checked = <<>>
    /\ resolves = 0

\* line 34: current_dir = Path.cwd().resolve()
RootResolve ==
    /\ root_pc = "start"
    /\ current_dir' = fs_depth
    /\ resolves' = resolves + 1
    /\ root_pc' = "loop"
    /\ UNCHANGED <<fs_depth, fs_mark, root_result, checked>>

\* lines 35-38: one iteration of the while loop
RootLoopStep ==
    /\ root_pc = "loop"
    /\ current_dir # Parent(current_dir)
    /\ checked' = Append(checked, current_dir)
    /\ IF IsFile(current_dir)
         THEN /\ root_result' = <<current_dir>>
              /\ root_pc' = "done"
              /\ UNCHANGED current_dir
         ELSE /\ current_dir' = Parent(current_dir)
              /\ UNCHANGED <<root_result, root_pc>>
    /\ UNCHANGED <<fs_depth, fs_mark, resolves>>

\* lines 39-42: the loop has ended at the filesystem root
RootFinalCheck ==
    /\ root_pc = "loop"
    /\ current_dir = Parent(current_dir)
    /\ checked' = Append(checked, current_dir)
    /\ root_result' = IF IsFile(current_dir) THEN <<current_dir>> ELSE <<>>
    /\ root_pc' = "done"
    /\ UNCHANGED <<fs_depth, fs_mark, current_dir, resolves>>

NextRoot ==
    \/ RootResolve /\ UNCHANGED <<cleanVars, metaVars, cliVars>>
    \/ RootLoopStep /\ UNCHANGED <<cleanVars, metaVars, cliVars>>
    \/ RootFinalCheck /\ UNCHANGED <<cleanVars, metaVars, cliVars>>

(***************************************************************************)
(* Specifier cleaning (utils.py line 111)                                  *)
(*                                                                         *)
(* A string is a sequence of one-character strings.                        *)
(***************************************************************************)
OpChars    == {"<", ">", "=", "!", "~"}
Whitespace == {" "}
Chars      == {"a", "B"} \cup Whitespace \cup OpChars

Range(s) == {s[i] : i \in DOMAIN s}
Strings(n) == UNION {[1..k -> Chars] : k \in 0..n}

\* re.split(pattern, s) for a one-character class: the pieces between the
\* characters of the class, empty pieces kept.
RECURSIVE SplitOn(_, _)
SplitOn(ops, s) ==
    IF s = <<>> THEN << <<>> >>
    ELSE LET rest == SplitOn(ops, Tail(s))
         IN IF Head(s) \in ops
              THEN << <<>> >> \o rest
              ELSE << <<Head(s)>> \o rest[1] >> \o Tail(rest)

\* re.split(r"[<>=!~]", dep)
SplitComparisonOnly(s) == SplitOn({"<", ">", "="}, s)
Split(s) == SplitOn(OpChars, s)

\* str.strip()
RECURSIVE LStrip(_)
LStrip(s) == IF s # <<>> /\ Head(s) \in Whitespace THEN LStrip(Tail(s)) ELSE s
RECURSIVE RStrip(_)
RStrip(s) ==
    IF s # <<>> /\ s[Len(s)] \in Whitespace
      THEN RStrip(SubSeq(s, 1, Len(s) - 1))
      ELSE s
Strip(s) == RStrip(LStrip(s))

\* re.split(r"[<>=!~]", dep)[0].strip()
CleanName(d) == Strip(Split(d)[1])

\* the filter of the comprehension: if dep.strip()
NonBlank(d) == Strip(d) # <<>>

CleanIdle == clean_pc = "idle" /\ dep = <<>> /\ cleaned = <<>>

InitCleanVars ==
    /\ clean_pc = "input"
    /\ dep \in Strings(MaxLen)
    /\ cleaned = <<>>

CleanSpecifier ==
    /\ clean_pc = "input"
    /\ cleaned' = CleanName(dep)
    /\ clean_pc' = "done"
    /\ UNCHANGED dep

NextClean == CleanSpecifier /\ UNCHANGED <<rootVars, metaVars, cliVars>>

(***************************************************************************)
(* get_project_name, get_project_dependencies                              *)
(***************************************************************************)
FileStates == {"missing", "directory", "undecodable", "malformed", "ok"}

\* What open(pyproject_path, "rb") and tomllib.load(file) raise ("" when
\* they return the parsed document).
LoadError(fstate) ==
    CASE fstate = "missing"     -> "FileNotFoundError"
      [] fstate = "directory"   -> "IsADirectoryError"
      [] fstate = "undecodable" -> "UnicodeDecodeError"
      [] fstate = "malformed"   -> "TOMLDecodeError"
      [] OTHER                  -> ""

\* except (tomllib.TOMLDecodeError, FileNotFoundError)
Caught == {"TOMLDecodeError", "FileNotFoundError"}

Uncalled  == [kind |-> "uncalled", value |-> <<>>, exc |-> ""]
Return(v) == [kind |-> "return", value |-> v, exc |-> ""]
Raise(e)  == [kind |-> "raise", value |-> <<>>, exc |-> e]

\* try: body / except Caught: return default
Except(body, default) ==
    IF body.kind = "raise" /\ body.exc \in Caught THEN Return(default) ELSE body

\* The specifier strings the dependency lists are drawn from.
Pool == { <<"a", ">", "=", "1">>,
          <<"b">>,
          <<" ", "B", " ", "<", "2">>,
          <<"c", "~", "=", "2">>,
          <<" ">>,
          <<">", "=", "1">> }
ProjectNames == { <<"p", "k", "g">> }

Lists(n) == UNION {[1..k -> Pool] : k \in 0..n}

\* A document: "project" is absent, a scalar (project = 1) or a table; in a
\* table, name is <<>> (no key) or <<string>>, dependencies is <<>> (no key)
\* or <<list>>, optional is <<>> (no key) or <<the groups' lists, in order>>.
NoTable(p) == [project |-> p, name |-> <<>>, dependencies |-> <<>>, optional |-> <<>>]

NameOptions == {<<>>} \cup {<<x>> : x \in ProjectNames}

\* The ways of laying the entries of flat out as project.dependencies
\* (entries 1..i) and up to two optional groups (entries i+1..j, j+1..):
\* pairs <<dependencies, optional>>.
Layouts(flat) ==
    LET n == Len(flat)
        At(i, j) ==
            LET d  == SubSeq(flat, 1, i)
                g1 == SubSeq(flat, i + 1, j)
                g2 == SubSeq(flat, j + 1, n)
                ds == IF i = 0 THEN {<<>>, << <<>> >>} ELSE {<<d>>}
                os == {<< <<g1, g2>> >>}
                        \cup (IF j = n THEN {<< <<g1>> >>} ELSE {})
                        \cup (IF i = n THEN {<<>>, << <<>> >>} ELSE {})
            IN ds \X os
    IN UNION {UNION {At(i, j) : j \in i..n} : i \in 0..n}

Docs ==
    {NoTable("absent"), NoTable("scalar")} \cup
    { [project |-> "table", name |-> nm, dependencies |-> lay[1], optional |-> lay[2]] :
        nm \in NameOptions,
        lay \in UNION {Layouts(flat) : flat \in Lists(MaxEntries)} }

MetaIdle ==
    /\ meta_pc = "idle" /\ file_state = "missing" /\ doc = NoTable("absent")
    /\ name_out = Uncalled /\ deps_out = Uncalled

InitMetaVars ==
    /\ meta_pc = "ready"
    /\ file_state \in FileStates
    /\ doc \in IF file_state = "ok" THEN Docs ELSE {NoTable("absent")}
    /\ name_out = Uncalled
    /\ deps_out = Uncalled

\* lines 75-78: data.get("project", {}).get("name")
NameBody ==
    IF LoadError(file_state) # "" THEN Raise(LoadError(file_state))
    ELSE IF doc.project = "absent" THEN Return(<<>>)
    ELSE IF doc.project = "scalar" THEN Raise("AttributeError")
    ELSE Return(doc.name)

\* lines 64-81
GetProjectName ==
    /\ meta_pc = "ready"
    /\ name_out' = Except(NameBody, <<>>)
    /\ meta_pc' = "done"
    /\ UNCHANGED <<file_state, doc, deps_out>>

RECURSIVE Concat(_)
Concat(ls) == IF ls = <<>> THEN <<>> ELSE Head(ls) \o Concat(Tail(ls))

\* lines 95-107: the list `dependencies` after both extends
Collected ==
    (IF doc.dependencies # <<>> THEN doc.dependencies[1] ELSE <<>>)
      \o (IF doc.optional # <<>> THEN Concat(doc.optional[1]) ELSE <<>>)

RECURSIVE Comprehension(_)
\* lines 110-112: [clean(dep) for dep in dependencies if dep.strip()]
Comprehension(ds) ==
    IF ds = <<>> THEN <<>>
    ELSE (IF NonBlank(Head(ds)) THEN <<CleanName(Head(ds))>> ELSE <<>>)
           \o Comprehension(Tail(ds))

\* line 114: list(set(cleaned_deps)); the order of a set is not defined
WithoutSet(cl) == {cl}
ListOfSet(cl) ==
    LET S == Range(cl)
    IN {l \in [1..Cardinality(S) -> S] : Range(l) = S}

\* lines 96-114 ("dependencies" in 1 raises TypeError)
DepsBody(order) ==
    IF LoadError(file_state) # "" THEN Raise(LoadError(file_state))
    ELSE IF doc.project = "scalar" THEN Raise("TypeError")
    ELSE Return(order)

\* lines 84-117
GetProjectDependencies ==
    /\ meta_pc = "ready"
    /\ \E order \in ListOfSet(Comprehension(Collected)) :
         deps_out' = Except(DepsBody(order), <<>>)
    /\ meta_pc' = "done"
    /\ UNCHANGED <<file_state, doc, name_out>>

NextMeta ==
    \/ GetProjectName /\ UNCHANGED <<rootVars, cleanVars, cliVars>>
    \/ GetProjectDependencies /\ UNCHANGED <<rootVars, cleanVars, cliVars>>

(***************************************************************************)
(* main: the argument parser, the pass-through scan and the dispatch       *)
(***************************************************************************)
\* lines 34-106: the sub-commands of the top-level parser
Verbs == {"new", "run", "add", "build", "init", "test", "lock", "format", "venv",
          "lint", "graph", "clean", "bump", "update", "scan", "dockerize", "env",
          "add-hooks"}
\* lines 47, 56-64, 73-75, 90-93, 106: sub-commands declaring no argument
BareVerbs == {"run", "build", "init", "test", "lock", "format", "lint", "graph",
              "clean", "scan", "dockerize", "add-hooks"}
VenvCommands == {"create", "remove"}        \* lines 71-72
EnvCommands  == {"set"}                     \* line 100
BumpParts    == {"major", "minor", "patch"} \* line 81
TemplateFlags == {"-t", "--template"}       \* lines 41-42
UpgradeFlags  == {"--upgrade"}              \* line 88

\* line 108
PassthroughCommands == {"run", "test", "lint"}

\* The tokens argument vectors are made of: any token first, a smaller set
\* after it. No vector holds -h/--help or "--".
DashTokens  == {"-t", "--template", "--upgrade", "--select"}
TailTokens  == {"run", "lint", "create", "set", "major", "-t", "--upgrade",
                "--select", "demo"}
FirstTokens == Verbs \cup TailTokens \cup {"bogus", "remove", "K=V"}
ArgVectors ==
    {<<>>} \cup
    UNION { {<<f>> \o t : f \in FirstTokens, t \in [1..k -> TailTokens]} : k \in 0..(MaxArgs - 1) }

\* argparse takes a token that starts with "-" for an option
IsOptionLike(t) == t \in DashTokens

\* lines 30-32, 68-70, 97-99: required=True
CommandRequired == TRUE
VenvCommandNotRequired == FALSE
VenvCommandRequired == TRUE
EnvCommandRequired == TRUE

\* The namespace parse_args returns; "" and <<>> stand for an attribute that
\* is None or not set.
NoArgs == [command |-> "", project_name |-> "", template |-> "app",
           module_name |-> "", venv_command |-> "", part |-> "",
           upgrade |-> FALSE, env_command |-> "", vars |-> <<>>]

ParseOk(ns) == [ok |-> TRUE, ns |-> ns]
UsageError  == [ok |-> FALSE, ns |-> NoArgs]

\* lines 34-45: new PROJECT_NAME [-t TEMPLATE]
RECURSIVE ParseNew(_, _, _)
ParseNew(ts, ns, named) ==
    IF ts = <<>> THEN (IF named THEN ParseOk(ns) ELSE UsageError)
    ELSE IF Head(ts) \in TemplateFlags
      THEN IF Len(ts) >= 2 /\ ~IsOptionLike(ts[2])
             THEN ParseNew(SubSeq(ts, 3, Len(ts)), [ns EXCEPT !.template = ts[2]], named)
             ELSE UsageError
    ELSE IF IsOptionLike(Head(ts)) \/ named THEN UsageError
    ELSE ParseNew(Tail(ts), [ns EXCEPT !.project_name = Head(ts)], TRUE)

\* lines 48-55: add MODULE_NAME
ParseAdd(ts, ns) ==
    IF Len(ts) = 1 /\ ~IsOptionLike(ts[1])
      THEN ParseOk([ns EXCEPT !.module_name = ts[1]])
      ELSE UsageError

\* lines 65-72: venv {create,remove}
ParseVenv(ts, ns) ==
    IF ts = <<>> THEN (IF VenvCommandRequired THEN UsageError ELSE ParseOk(ns))
    ELSE IF Len(ts) = 1 /\ ts[1] \in VenvCommands
      THEN ParseOk([ns EXCEPT !.venv_command = ts[1]])
      ELSE UsageError

\* lines 76-83: bump {major,minor,patch}
ParseBump(ts, ns) ==
    IF Len(ts) = 1 /\ ts[1] \in BumpParts
      THEN ParseOk([ns EXCEPT !.part = ts[1]])
      ELSE UsageError

\* lines 84-89: update [--upgrade]
ParseUpdate(ts, ns) ==
    IF \A i \in DOMAIN ts : ts[i] \in UpgradeFlags
      THEN ParseOk([ns EXCEPT !.upgrade = (ts # <<>>)])
      ELSE UsageError

\* lines 94-105: env set KEY=VALUE [KEY=VALUE ...]
ParseEnv(ts, ns) ==
    IF ts = <<>> THEN (IF EnvCommandRequired THEN UsageError ELSE ParseOk(ns))
    ELSE IF /\ ts[1] \in EnvCommands
            /\ Len(ts) >= 2
            /\ \A i \in 2..Len(ts) : ~IsOptionLike(ts[i])
      THEN ParseOk([ns EXCEPT !.env_command = ts[1], !.vars = Tail(ts)])
      ELSE UsageError

\* line 118: parser.parse_args(ts)
ParseArgs(ts) ==
    IF ts = <<>> THEN (IF CommandRequired THEN UsageError ELSE ParseOk(NoArgs))
    ELSE IF Head(ts) \notin Verbs THEN UsageError
    ELSE LET ns   == [NoArgs EXCEPT !.command = Head(ts)]
             rest == Tail(ts)
         IN CASE Head(ts) = "new"    -> ParseNew(rest, ns, FALSE)
              [] Head(ts) = "add"    -> ParseAdd(rest, ns)
              [] Head(ts) = "venv"   -> ParseVenv(rest, ns)
              [] Head(ts) = "bump"   -> ParseBump(rest, ns)
              [] Head(ts) = "update" -> ParseUpdate(rest, ns)
              [] Head(ts) = "env"    -> ParseEnv(rest, ns)
              [] OTHER               -> IF rest = <<>> THEN ParseOk(ns) ELSE UsageError

\* lines 112-113: the index of the first token in passthrough_commands, 0
\* when the loop ends without a break
RECURSIVE FirstMarkerFrom(_, _)
FirstMarkerFrom(ts, i) ==
    IF i > Len(ts) THEN 0
    ELSE IF ts[i] \in PassthroughCommands THEN i
    ELSE FirstMarkerFrom(ts, i + 1)
FirstMarker(ts) == FirstMarkerFrom(ts, 1)

\* line 114: main_args[i + 1 :]   (i counted from 1 here)
SubArgsFromMarker(ts, i) == SubSeq(ts, i, Len(ts))
SubArgsAt(ts, i) == SubSeq(ts, i + 1, Len(ts))
\* line 115: main_args[: i + 1]
MainArgsAt(ts, i) == SubSeq(ts, 1, i)

Call(r, a) == [routine |-> r, args |-> a]

\* lines 152-154: the env branch
DispatchEnvUnset(ns) ==
    IF ns.env_command = "unset" THEN <<Call("manage_env", <<ns.vars>>)>> ELSE <<>>
DispatchEnv(ns) ==
    IF ns.env_command = "set" THEN <<Call("manage_env", <<ns.vars>>)>> ELSE <<>>

\* lines 120-156: the calls the if/elif chain makes
Dispatch(ns, sub) ==
    CASE ns.command = "new"       -> <<Call("create_project", <<ns.project_name, ns.template>>)>>
      [] ns.command = "run"       -> <<Call("start_project", <<sub>>)>>
      [] ns.command = "add"       -> <<Call("install_module", <<ns.module_name>>)>>
      [] ns.command = "build"     -> <<Call("install_project", <<>>)>>
      [] ns.command = "init"      -> <<Call("initialize_project", <<>>)>>
      [] ns.command = "test"      -> <<Call("run_tests", <<sub>>)>>
      [] ns.command = "lock"      -> <<Call("lock_dependencies", <<>>)>>
      [] ns.command = "format"    -> <<Call("format_project", <<>>)>>
      [] ns.command = "venv"      -> <<Call("manage_venv", <<ns.venv_command>>)>>
      [] ns.command = "lint"      -> <<Call("lint_project", <<sub>>)>>
      [] ns.command = "graph"     -> <<Call("show_dependency_graph", <<>>)>>
      [] ns.command = "clean"     -> <<Call("clean_project", <<>>)>>
      [] ns.command = "bump"      -> <<Call("bump_project_version", <<ns.part>>)>>
      [] ns.command = "update"    -> <<Call("update_dependencies", <<ns.upgrade>>)>>
      [] ns.command = "scan"      -> <<Call("scan_project", <<>>)>>
      [] ns.command = "dockerize" -> <<Call("dockerize_project", <<>>)>>
      [] ns.command = "env"       -> DispatchEnv(ns)
      [] ns.command = "add-hooks" -> <<Call("add_git_hooks", <<>>)>>
      [] OTHER                    -> <<>>

CliIdle ==
    /\ cli_pc = "idle" /\ argv = <<>> /\ main_args = <<>> /\ sub_args = <<>>
    /\ args = NoArgs /\ invoked = <<>> /\ exit_code = <<>> /\ usage_err = FALSE

InitCliVars ==
    /\ cli_pc = "Start"
    /\ argv \in ArgVectors
    /\ main_args = <<>>
    /\ sub_args = <<>>
    /\ args = NoArgs
    /\ invoked = <<>>
    /\ exit_code = <<>>
    /\ usage_err = FALSE

\* lines 108-116
Scan ==
    /\ cli_pc = "Start"
    /\ LET i == FirstMarker(argv)
       IN IF i = 0
            THEN main_args' = argv /\ sub_args' = <<>>
            ELSE main_args' = MainArgsAt(argv, i) /\ sub_args' = SubArgsAt(argv, i)
    /\ cli_pc' = "Scanned"
    /\ UNCHANGED <<argv, args, invoked, exit_code, usage_err>>

\* line 118, parse_args returning
ParseSucceeds ==
    /\ cli_pc = "Scanned"
    /\ ParseArgs(main_args).ok
    /\ args' = ParseArgs(main_args).ns
    /\ cli_pc' = "Parsed"
    /\ UNCHANGED <<argv, main_args, sub_args, invoked, exit_code, usage_err>>

\* line 118, parse_args calling parser.error: usage on stderr, exit status 2
ParseFails ==
    /\ cli_pc = "Scanned"
    /\ ~ParseArgs(main_args).ok
    /\ usage_err' = TRUE
    /\ exit_code' = <<2>>
    /\ cli_pc' = "ParseError"
    /\ UNCHANGED <<argv, main_args, sub_args, args, invoked>>

\* lines 120-156
DispatchCommand ==
    /\ cli_pc = "Parsed"
    /\ invoked' = invoked \o Dispatch(args, sub_args)
    /\ cli_pc' = "Dispatched"
    /\ UNCHANGED <<argv, main_args, sub_args, args, exit_code, usage_err>>

NextCli ==
    \/ Scan /\ UNCHANGED <<rootVars, cleanVars, metaVars>>
    \/ ParseSucceeds /\ UNCHANGED <<rootVars, cleanVars, metaVars>>
    \/ ParseFails /\ UNCHANGED <<rootVars, cleanVars, metaVars>>
    \/ DispatchCommand /\ UNCHANGED <<rootVars, cleanVars, metaVars>>

(***************************************************************************)
(* Specifications                                                          *)
(***************************************************************************)
InitRoot  == InitRootVars /\ CleanIdle /\ MetaIdle /\ CliIdle
InitClean == RootIdle /\ InitCleanVars /\ MetaIdle /\ CliIdle
InitMeta  == RootIdle /\ CleanIdle /\ InitMetaVars /\ CliIdle
InitCli   == RootIdle /\ CleanIdle /\ MetaIdle /\ InitCliVars

SpecRoot     == InitRoot /\ [][NextRoot]_vars
FairSpecRoot == SpecRoot /\ WF_vars(NextRoot)
SpecClean    == InitClean /\ [][NextClean]_vars
SpecMeta     == InitMeta /\ [][NextMeta]_vars
SpecCli      == InitCli /\ [][NextCli]_vars

Init == InitRoot \/ InitClean \/ InitMeta \/ InitCli
Next == NextRoot \/ NextClean \/ NextMeta \/ NextCli
Spec == Init /\ [][Next]_vars

(***************************************************************************)
(* Properties                                                              *)
(***************************************************************************)
NoDuplicates(l) == \A i, j \in DOMAIN l : i # j => l[i] # l[j]

\* The ancestors of the working directory that hold a pyproject.toml file.
MarkedAncestors == {d \in 0..fs_depth : fs_mark[d] = "file"}
Nearest == CHOOSE d \in MarkedAncestors : \A e \in MarkedAncestors : e <= d

\* C1: find_project_root returns the nearest ancestor of the resolved
\* working directory (itself and the filesystem root included) that holds a
\* pyproject.toml file, and None exactly when no ancestor holds one.
C1_NearestMarkedAncestor ==
    root_pc = "done" =>
        root_result = IF MarkedAncestors = {} THEN <<>> ELSE <<Nearest>>

\* C1 witness: the walk passed a directory named pyproject.toml and stopped
\* at the nearer of two marked ancestors.
C1_Witness ==
    /\ root_pc = "done"
    /\ Cardinality(MarkedAncestors) >= 2
    /\ root_result = <<Nearest>>
    /\ \E e \in 0..fs_depth : e > Nearest /\ fs_mark[e] = "dir"

C9_WalkInvariant ==
    /\ NoDuplicates(checked)
    /\ resolves <= 1
    /\ root_pc \in {"loop", "done"} => resolves = 1
    /\ root_pc = "done" =>
         IF MarkedAncestors # {}
           THEN Len(checked) = (fs_depth - Nearest) + 1
           ELSE /\ Len(checked) = fs_depth + 1
                /\ Range(checked) = 0..fs_depth
                /\ Cardinality({i \in DOMAIN checked : checked[i] = 0}) = 1
                /\ root_result = <<>>

\* C9: the walk terminates and tests no directory twice; with the nearest
\* marker d levels up it makes exactly d+1 tests; with no marker it tests
\* every ancestor once, the filesystem root once, and returns None; the
\* working directory is resolved once.
C9_WalkTerminatesBounded ==
    /\ []C9_WalkInvariant
    /\ (root_pc = "start") ~> (root_pc = "done")

\* C9 witness: no ancestor is marked, the walk went up at least two levels.
C9_Witness ==
    /\ root_pc = "done"
    /\ MarkedAncestors = {}
    /\ fs_depth >= 2
    /\ Len(checked) = fs_depth + 1
    /\ root_result = <<>>

\* The positions of version-operator characters, and the text before the
\* first of them.
OpPositions(s) == {i \in DOMAIN s : s[i] \in {"<", ">", "=", "!", "~"}}
BeforeFirstOp(s) ==
    IF OpPositions(s) = {} THEN s
    ELSE SubSeq(s, 1, (CHOOSE i \in OpPositions(s) : \A k \in OpPositions(s) : i <= k) - 1)

\* t is s without its leading and trailing blanks.
IsTrimOf(t, s) ==
    \E i \in 1..(Len(s) + 1), j \in 0..Len(s) :
        /\ t = SubSeq(s, i, j)
        /\ \A k \in 1..(i - 1) : s[k] = " "
        /\ \A k \in (j + 1)..Len(s) : s[k] = " "
        /\ t # <<>> => t[1] # " " /\ t[Len(t)] # " "
TrimOf(s) ==
    CHOOSE t \in {SubSeq(s, i, j) : i \in 1..(Len(s) + 1), j \in 0..Len(s)} : IsTrimOf(t, s)

\* C5: the cleaned name of a specifier is the text before its first version
\* operator character, trimmed (the whole specifier, trimmed, when it has
\* none), in the specifier's own letter case.
C5_CleanedIsTrimmedPrefix ==
    clean_pc = "done" => IsTrimOf(cleaned, BeforeFirstOp(dep))

\* C5 witness: a specifier with an operator whose prefix needed trimming.
C5_Witness ==
    /\ clean_pc = "done"
    /\ OpPositions(dep) # {}
    /\ cleaned # <<>>
    /\ Len(cleaned) < Len(BeforeFirstOp(dep))

\* The entries of project.dependencies and of every optional group.
DeclaredMain == IF doc.dependencies = <<>> THEN {} ELSE Range(doc.dependencies[1])
DeclaredOptional ==
    IF doc.optional = <<>> THEN {} ELSE UNION {Range(g) : g \in Range(doc.optional[1])}
IsBlank(e) == \A i \in DOMAIN e : e[i] = " "
ExpectedNames ==
    {TrimOf(BeforeFirstOp(e)) : e \in {x \in DeclaredMain \cup DeclaredOptional : ~IsBlank(x)}}

\* C6: get_project_dependencies returns each cleaned name of a non-blank
\* entry of project.dependencies or of an optional group exactly once, and
\* nothing else.
C6_ExactlyTheDeclaredNames ==
    (deps_out.kind # "uncalled" /\ file_state = "ok" /\ doc.project = "table") =>
        /\ deps_out.kind = "return"
        /\ Range(deps_out.value) = ExpectedNames
        /\ NoDuplicates(deps_out.value)

\* C6 witness: an entry declared both in project.dependencies and in an
\* optional group, returned once beside another name.
C6_Witness ==
    /\ deps_out.kind = "return"
    /\ \E e \in DeclaredMain \cap DeclaredOptional : ~IsBlank(e)
    /\ Len(deps_out.value) >= 2
    /\ Len(Collected) > Len(deps_out.value)

\* The marker-file states the claim lists: missing, malformed, no project
\* table, no looked-up key.
NoMetadata ==
    \/ file_state \in {"missing", "malformed", "undecodable"}
    \/ file_state = "ok" /\ doc.project = "absent"
NoNameKey == file_state = "ok" /\ doc.project = "table" /\ doc.name = <<>>
NoDependencyKeys ==
    file_state = "ok" /\ doc.project = "table" /\ doc.dependencies = <<>> /\ doc.optional = <<>>

\* C4: get_project_name and get_project_dependencies never raise, whatever
\* the state of the marker file; for a missing or malformed file, a missing
\* project table or a missing key they return None and the empty list.
C4_NeverRaises ==
    /\ name_out.kind # "raise"
    /\ deps_out.kind # "raise"
    /\ (name_out.kind = "return" /\ (NoMetadata \/ NoNameKey)) => name_out.value = <<>>
    /\ (deps_out.kind = "return" /\ (NoMetadata \/ NoDependencyKeys)) => deps_out.value = <<>>

\* C10: every name get_project_dependencies returns is non-empty, has no
\* blank at either end and holds no version-operator character.
C10_BareNames ==
    deps_out.kind = "return" =>
        \A i \in DOMAIN deps_out.value :
            LET nm == deps_out.value[i]
            IN /\ nm # <<>>
               /\ nm[1] # " " /\ nm[Len(nm)] # " "
               /\ OpPositions(nm) = {}

\* The verbs of the command-line surface and the routine each stands for.
KnownVerbs ==
    {"new", "run", "add", "build", "init", "test", "lock", "format", "venv", "lint",
     "graph", "clean", "bump", "update", "scan", "dockerize", "env", "add-hooks"}
RoutineOf(verb) ==
    CASE verb = "new"       -> "create_project"
      [] verb = "run"       -> "start_project"
      [] verb = "add"       -> "install_module"
      [] verb = "build"     -> "install_project"
      [] verb = "init"      -> "initialize_project"
      [] verb = "test"      -> "run_tests"
      [] verb = "lock"      -> "lock_dependencies"
      [] verb = "format"    -> "format_project"
      [] verb = "venv"      -> "manage_venv"
      [] verb = "lint"      -> "lint_project"
      [] verb = "graph"     -> "show_dependency_graph"
      [] verb = "clean"     -> "clean_project"
      [] verb = "bump"      -> "bump_project_version"
      [] verb = "update"    -> "update_dependencies"
      [] verb = "scan"      -> "scan_project"
      [] verb = "dockerize" -> "dockerize_project"
      [] verb = "env"       -> "manage_env"
      [] verb = "add-hooks" -> "add_git_hooks"
      [] OTHER              -> "none"

\* The position in argv of the first run, test or lint token (0: none).
MarkerTokens == {"run", "test", "lint"}
MarkerPositions == {i \in DOMAIN argv : argv[i] \in MarkerTokens}
MarkerAt ==
    IF MarkerPositions = {} THEN 0
    ELSE CHOOSE i \in MarkerPositions : \A k \in MarkerPositions : i <= k
AfterMarker == SubSeq(argv, MarkerAt + 1, Len(argv))

\* C2 as claimed: with the first run/test/lint token at position i, only
\* tokens up to i are parsed and the tokens after i are handed, unchanged,
\* to the run/test/lint routine.
C2_TailReachesRoutine ==
    (cli_pc # "Start" /\ MarkerAt # 0) =>
        /\ main_args = SubSeq(argv, 1, MarkerAt)
        /\ cli_pc = "Dispatched" =>
             /\ Len(invoked) = 1
             /\ invoked[1].routine = RoutineOf(argv[MarkerAt])
             /\ invoked[1].args = <<AfterMarker>>

\* C2 amended: with the first run/test/lint token at position i, only
\* tokens up to i are parsed and the tokens after i are set aside unchanged;
\* when that token is the verb (the first token) the parse succeeds and they
\* are handed, unchanged, to the verb's routine.
C2_TailReachesRoutineOfVerb ==
    (cli_pc \notin {"idle", "Start"} /\ MarkerAt # 0) =>
        /\ main_args = SubSeq(argv, 1, MarkerAt)
        /\ sub_args = AfterMarker
        /\ MarkerAt = 1 =>
             /\ cli_pc # "ParseError"
             /\ cli_pc = "Dispatched" =>
                  /\ Len(invoked) = 1
                  /\ invoked[1].routine = RoutineOf(argv[1])
                  /\ invoked[1].args = <<AfterMarker>>

\* C2 witness: lint --select demo ... reached the lint routine.
C2_Witness ==
    /\ cli_pc = "Dispatched"
    /\ Len(argv) >= 3
    /\ argv[1] = "lint" /\ argv[2] = "--select" /\ argv[3] = "demo"
    /\ invoked[1].routine = "lint_project"
    /\ invoked[1].args = <<Tail(argv)>>

\* C3: under any verb other than run, test and lint the pass-through list
\* is empty and every token of the argument vector is parsed.
C3_NoPassThroughForOtherVerbs ==
    (cli_pc \in {"Parsed", "Dispatched"} /\ args.command \notin {"run", "test", "lint"}) =>
        /\ sub_args = <<>>
        /\ main_args = argv

\* The argument vectors that are usage errors: no verb, an unknown verb, a
\* verb that needs a sub-verb without one, a bump part that is none of
\* major, minor, patch.
UsageErrorVector ==
    \/ argv = <<>>
    \/ argv # <<>> /\ argv[1] \notin KnownVerbs
    \/ argv \in {<<"venv">>, <<"env">>}
    \/ Len(argv) >= 2 /\ argv[1] = "bump" /\ argv[2] \notin {"major", "minor", "patch"}

\* C7: a usage error ends the invocation with a nonzero exit status and
\* usage text on standard error, and no routine runs.
C7_UsageErrorRunsNothing ==
    /\ (cli_pc \in {"Parsed", "Dispatched"}) => ~UsageErrorVector
    /\ cli_pc = "ParseError" =>
         /\ exit_code # <<>> /\ exit_code[1] # 0
         /\ usage_err
         /\ invoked = <<>>
         /\ ~ENABLED DispatchCommand
    /\ usage_err => cli_pc = "ParseError"

\* C7 witness: venv without a sub-verb ended as a usage error.
C7_Witness ==
    /\ cli_pc = "ParseError"
    /\ argv = <<"venv">>
    /\ exit_code = <<2>>

C8_DispatchInvariant ==
    /\ cli_pc \in {"Start", "Scanned", "Parsed", "ParseError"} => invoked = <<>>
    /\ cli_pc = "Parsed" => args.command = argv[1] /\ ENABLED DispatchCommand
    /\ cli_pc = "Dispatched" =>
         /\ Len(invoked) = 1
         /\ invoked[1].routine = RoutineOf(args.command)
         /\ args.command = "venv" =>
              args.venv_command \in {"create", "remove"} /\ invoked[1].args = <<args.venv_command>>
         /\ args.command = "env" => invoked[1].args = <<args.vars>>

C8_Step ==
    /\ cli_pc' # cli_pc =>
         <<cli_pc, cli_pc'>> \in {<<"Start", "Scanned">>, <<"Scanned", "Parsed">>,
                                  <<"Scanned", "ParseError">>, <<"Parsed", "Dispatched">>}
    /\ cli_pc \in {"ParseError", "Dispatched"} => UNCHANGED cliVars

====
